---- MODULE Spec2Model ----
(***************************************************************************)
(* Registry and definition of community roles                              *)
(* (invenio_communities/roles.py): the Role value type and RoleRegistry.   *)
(*                                                                         *)
(* A Python dict is modelled as a sequence of [key, value] items in        *)
(* insertion order; a list as a sequence; None as the record None.         *)
(***************************************************************************)
EXTENDS Naturals, Sequences, FiniteSets

VARIABLES
    roles_definitions,  \* the mapping handed to RoleRegistry(...)
    status,             \* "none": not constructed, "built", "failed"
    _roles,             \* RoleRegistry._roles of the registry the caller holds
    _owner,             \* RoleRegistry._owner of the registry the caller holds
    result              \* what the last call returned or raised

vars == <<roles_definitions, status, _roles, _owner, result>>

----------------------------------------------------------------------------
(* Bounds and input sets *)

MaxRoles == 2

KeyNames == {"reader", "manager", "owner"}

QueryNames == {"reader", "owner", "ghost"}

ManageLists ==
    { <<>>, <<"ghost">>, <<"reader", "reader">>, <<"reader", "owner">> }

Titles == {"", "Title"}

None == [none |-> TRUE]

----------------------------------------------------------------------------
(* Role *)

Field(data, f, default) == IF f \in DOMAIN data THEN data[f] ELSE default

\* Role built without the mapping key injected as its name
RoleNoName(name, data) ==
    [ name             |-> "",
      title            |-> Field(data, "title", ""),
      description      |-> Field(data, "description", ""),
      can_manage_roles |-> Field(data, "can_manage_roles", <<>>),
      is_owner         |-> Field(data, "is_owner", FALSE) ]

\* Role(name=name, **data): the dataclass fields with their defaults.
Role(name, data) ==
    [ name             |-> name,
      title            |-> Field(data, "title", ""),
      description      |-> Field(data, "description", ""),
      can_manage_roles |-> Field(data, "can_manage_roles", <<>>),
      is_owner         |-> Field(data, "is_owner", FALSE) ]

\* role_name in self.can_manage_roles
can_manage(self, role_name) ==
    \E i \in DOMAIN self.can_manage_roles : self.can_manage_roles[i] = role_name

----------------------------------------------------------------------------
(* dict *)

RECURSIVE DictFind(_, _, _)
\* index of key in dict d, scanning from item i; 0 when absent
DictFind(d, key, i) ==
    IF i > Len(d) THEN 0
    ELSE IF d[i].key = key THEN i
    ELSE DictFind(d, key, i + 1)

\* a mapping that puts a new key in front instead of at the end
DictSetFront(d, key, value) ==
    LET i == DictFind(d, key, 1) IN
    IF i = 0 THEN <<[key |-> key, value |-> value]>> \o d
    ELSE [d EXCEPT ![i].value = value]

\* d[key] = value
DictSet(d, key, value) ==
    LET i == DictFind(d, key, 1) IN
    IF i = 0 THEN Append(d, [key |-> key, value |-> value])
    ELSE [d EXCEPT ![i].value = value]

\* d.values()
DictValues(d) == [i \in DOMAIN d |-> d[i].value]

----------------------------------------------------------------------------
(* RoleRegistry.__init__ *)

RECURSIVE BuildRoles(_, _, _)
\* {name: Role(name=name, **data) for (name, data) in roles_definitions.items()}
BuildRoles(items, i, acc) ==
    IF i > Len(items) THEN acc
    ELSE BuildRoles(items, i + 1,
                    DictSet(acc, items[i].key, Role(items[i].key, items[i].value)))

RECURSIVE ScanOwnerAssertInLoop(_, _, _)
\* the final assertion indented into the loop body
ScanOwnerAssertInLoop(values, i, owner) ==
    IF i > Len(values)
    THEN [err |-> "", msg |-> "", owner |-> owner]
    ELSE IF values[i].is_owner /\ owner # None
         THEN [err |-> "AssertionError", msg |-> "Only one role be defined as owner.", owner |-> None]
         ELSE LET o == IF values[i].is_owner THEN values[i] ELSE owner IN
              IF o = None
              THEN [err |-> "AssertionError", msg |-> "One role must be defined as owner.", owner |-> None]
              ELSE ScanOwnerAssertInLoop(values, i + 1, o)

RECURSIVE ScanOwnerLastWins(_, _, _)
\* the loop without the assertion that no owner was seen before
ScanOwnerLastWins(values, i, owner) ==
    IF i > Len(values)
    THEN IF owner = None
         THEN [err |-> "AssertionError", msg |-> "One role must be defined as owner.", owner |-> None]
         ELSE [err |-> "", msg |-> "", owner |-> owner]
    ELSE IF values[i].is_owner
         THEN ScanOwnerLastWins(values, i + 1, values[i])
         ELSE ScanOwnerLastWins(values, i + 1, owner)

RECURSIVE ScanOwnerNoFinalAssert(_, _, _)
\* the loop without the assertion that an owner was found
ScanOwnerNoFinalAssert(values, i, owner) ==
    IF i > Len(values)
    THEN [err |-> "", msg |-> "", owner |-> owner]
    ELSE IF values[i].is_owner
         THEN IF owner # None
              THEN [err |-> "AssertionError", msg |-> "Only one role be defined as owner.", owner |-> None]
              ELSE ScanOwnerNoFinalAssert(values, i + 1, values[i])
         ELSE ScanOwnerNoFinalAssert(values, i + 1, owner)

RECURSIVE ScanOwner(_, _, _)
\* the loop over self._roles.values() and the two assertions
ScanOwner(values, i, owner) ==
    IF i > Len(values)
    THEN IF owner = None
         THEN [err |-> "AssertionError", msg |-> "One role must be defined as owner.", owner |-> None]
         ELSE [err |-> "", msg |-> "", owner |-> owner]
    ELSE IF values[i].is_owner
         THEN IF owner # None
              THEN [err |-> "AssertionError", msg |-> "Only one role be defined as owner.", owner |-> None]
              ELSE ScanOwner(values, i + 1, values[i])
         ELSE ScanOwner(values, i + 1, owner)

__init__ ==
    /\ status = "none"
    /\ LET roles == BuildRoles(roles_definitions, 1, <<>>)
           scan  == ScanOwner(DictValues(roles), 1, None)
       IN IF scan.err = ""
          THEN /\ status' = "built"
               /\ _roles' = roles
               /\ _owner' = scan.owner
               /\ result' = [op |-> "__init__", err |-> "", msg |-> ""]
          ELSE /\ status' = "failed"
               /\ UNCHANGED <<_roles, _owner>>
               /\ result' = [op |-> "__init__", err |-> scan.err, msg |-> scan.msg]
    /\ UNCHANGED roles_definitions

----------------------------------------------------------------------------

(* RoleRegistry queries: what each call returns or raises on a registry *)

\* key in self._roles
ContainsOutcome(roles, key) ==
    [op |-> "__contains__", arg |-> key, err |-> "", val |-> DictFind(roles, key, 1) # 0]

\* self._roles.get(key): None instead of KeyError
GetItemOutcomeGet(roles, key) ==
    LET i == DictFind(roles, key, 1) IN
    IF i = 0
    THEN [op |-> "__getitem__", arg |-> key, err |-> "", val |-> None]
    ELSE [op |-> "__getitem__", arg |-> key, err |-> "", val |-> roles[i].value]

\* self._roles[key]
GetItemOutcome(roles, key) ==
    LET i == DictFind(roles, key, 1) IN
    IF i = 0
    THEN [op |-> "__getitem__", arg |-> key, err |-> "KeyError", val |-> None]
    ELSE [op |-> "__getitem__", arg |-> key, err |-> "", val |-> roles[i].value]

RECURSIVE AppendPerEntry(_, _, _, _)
AppendPerEntry(role, j, role_name, allowed_roles) ==
    IF j > Len(role.can_manage_roles) THEN allowed_roles
    ELSE AppendPerEntry(role, j + 1, role_name,
                        IF role.can_manage_roles[j] = role_name
                        THEN Append(allowed_roles, role) ELSE allowed_roles)

RECURSIVE ManagerRolesLoopPerEntry(_, _, _, _)
\* a scan that appends the role once for every matching entry of its list
ManagerRolesLoopPerEntry(values, i, role_name, allowed_roles) ==
    IF i > Len(values) THEN allowed_roles
    ELSE ManagerRolesLoopPerEntry(values, i + 1, role_name,
                                  AppendPerEntry(values[i], 1, role_name, allowed_roles))

RECURSIVE ManagerRolesLoopKnownOnly(_, _, _, _)
\* a scan that answers only for names of roles of the registry
ManagerRolesLoopKnownOnly(values, i, role_name, allowed_roles) ==
    IF i > Len(values) THEN allowed_roles
    ELSE IF can_manage(values[i], role_name)
            /\ \E j \in DOMAIN values : values[j].name = role_name
         THEN ManagerRolesLoopKnownOnly(values, i + 1, role_name, Append(allowed_roles, values[i]))
         ELSE ManagerRolesLoopKnownOnly(values, i + 1, role_name, allowed_roles)

RECURSIVE ManagerRolesLoop(_, _, _, _)
\* for role in self.roles: if role.can_manage(role_name): allowed_roles.append(role)
ManagerRolesLoop(values, i, role_name, allowed_roles) ==
    IF i > Len(values) THEN allowed_roles
    ELSE IF can_manage(values[i], role_name)
         THEN ManagerRolesLoop(values, i + 1, role_name, Append(allowed_roles, values[i]))
         ELSE ManagerRolesLoop(values, i + 1, role_name, allowed_roles)

ManagerRolesOutcome(roles, role_name) ==
    [op |-> "manager_roles", arg |-> role_name, err |-> "",
     val |-> ManagerRolesLoop(DictValues(roles), 1, role_name, <<>>)]

CanManageOutcome(self, role_name) ==
    [op |-> "can_manage", self |-> self, arg |-> role_name, err |-> "",
     val |-> can_manage(self, role_name)]

__contains__(key) ==
    /\ status = "built"
    /\ result' = ContainsOutcome(_roles, key)
    /\ UNCHANGED <<roles_definitions, status, _roles, _owner>>

\* a lookup that inserts a default Role for a missing key
getitem_setdefault(key) ==
    /\ status = "built"
    /\ LET i == DictFind(_roles, key, 1) IN
       IF i = 0
       THEN /\ _roles' = Append(_roles, [key |-> key, value |-> Role(key, [f \in {} |-> ""])])
            /\ result' = [op |-> "__getitem__", arg |-> key, err |-> "",
                          val |-> Role(key, [f \in {} |-> ""])]
       ELSE /\ _roles' = _roles
            /\ result' = GetItemOutcome(_roles, key)
    /\ UNCHANGED <<roles_definitions, status, _owner>>

__getitem__(key) ==
    /\ status = "built"
    /\ result' = GetItemOutcome(_roles, key)
    /\ UNCHANGED <<roles_definitions, status, _roles, _owner>>

\* iter(self.roles), consumed to the end
__iter__ ==
    /\ status = "built"
    /\ result' = [op |-> "__iter__", err |-> "", val |-> DictValues(_roles)]
    /\ UNCHANGED <<roles_definitions, status, _roles, _owner>>

roles ==
    /\ status = "built"
    /\ result' = [op |-> "roles", err |-> "", val |-> DictValues(_roles)]
    /\ UNCHANGED <<roles_definitions, status, _roles, _owner>>

owner_role ==
    /\ status = "built"
    /\ result' = [op |-> "owner_role", err |-> "", val |-> _owner]
    /\ UNCHANGED <<roles_definitions, status, _roles, _owner>>

manager_roles(role_name) ==
    /\ status = "built"
    /\ result' = ManagerRolesOutcome(_roles, role_name)
    /\ UNCHANGED <<roles_definitions, status, _roles, _owner>>

\* role.can_manage(role_name) on a role of the registry
CanManageCall(i, role_name) ==
    /\ status = "built"
    /\ i \in DOMAIN _roles
    /\ result' = CanManageOutcome(_roles[i].value, role_name)
    /\ UNCHANGED <<roles_definitions, status, _roles, _owner>>

----------------------------------------------------------------------------
(* Role equality and hash *)

\* equality on the name alone
EqByName(self, other) == self.name = other.name

\* the __eq__ that @dataclass generates: the tuples of all fields
__eq__(self, other) ==
    <<self.name, self.title, self.description, self.can_manage_roles, self.is_owner>>
      = <<other.name, other.title, other.description, other.can_manage_roles, other.is_owner>>

\* str.__hash__: a function of the string alone, not injective
StrHash(s) ==
    CASE s = "reader" -> 1
      [] s = "manager" -> 2
      [] s = "owner" -> 1
      [] OTHER -> 0

\* self.name.__hash__()
__hash__(self) == StrHash(self.name)

RoleData ==
    [title : Titles, can_manage_roles : {<<>>, <<"reader">>}, is_owner : BOOLEAN]

RoleValues == {Role(n, d) : n \in KeyNames, d \in RoleData}

Compare(a, b) ==
    /\ status = "none"
    /\ result' = [op |-> "compare", a |-> a, b |-> b, err |-> "",
                  eq |-> __eq__(a, b), hash_a |-> __hash__(a), hash_b |-> __hash__(b)]
    /\ UNCHANGED <<roles_definitions, status, _roles, _owner>>

----------------------------------------------------------------------------

EmptyData == [f \in {} |-> ""]

\* the entries' attribute records: any subset of the fields may be left out
DataOptions ==
    {EmptyData}
    \cup {[is_owner |-> o] : o \in BOOLEAN}
    \cup {[can_manage_roles |-> l] : l \in ManageLists}
    \cup {[can_manage_roles |-> l, is_owner |-> TRUE] : l \in ManageLists}

Init ==
    /\ roles_definitions \in
         UNION {[1..n -> [key : KeyNames, value : DataOptions]] : n \in 0..MaxRoles}
    /\ \A i, j \in DOMAIN roles_definitions :
         roles_definitions[i].key = roles_definitions[j].key => i = j
    /\ status = "none"
    /\ _roles = <<>>
    /\ _owner = None
    /\ result = [op |-> "none"]

Next ==
    \/ __init__
    \/ \E key \in QueryNames : __contains__(key)
    \/ \E key \in QueryNames : __getitem__(key)
    \/ __iter__
    \/ roles
    \/ owner_role
    \/ \E role_name \in QueryNames : manager_roles(role_name)
    \/ \E i \in 1..MaxRoles, role_name \in QueryNames : CanManageCall(i, role_name)

Spec == Init /\ [][Next]_vars

InitRole ==
    /\ roles_definitions = <<>>
    /\ status = "none"
    /\ _roles = <<>>
    /\ _owner = None
    /\ result = [op |-> "none"]

NextRole == \E a, b \in RoleValues : Compare(a, b)

SpecRole == InitRole /\ [][NextRole]_vars

----------------------------------------------------------------------------
(* What the properties are stated over *)

\* the keys of the configuration mapping
ConfigKeys == {roles_definitions[i].key : i \in DOMAIN roles_definitions}

\* the entries of the configuration mapping with is_owner = true
OwnerEntries ==
    {i \in DOMAIN roles_definitions :
        /\ "is_owner" \in DOMAIN roles_definitions[i].value
        /\ roles_definitions[i].value.is_owner}

\* the keys of the registry
RegistryKeys == {_roles[i].key : i \in DOMAIN _roles}

\* the roles of the registry flagged as owner
RegistryOwners == {i \in DOMAIN _roles : _roles[i].value.is_owner}

\* the names a role lists
Listed(role) == {role.can_manage_roles[i] : i \in DOMAIN role.can_manage_roles}

\* the registry and the owner a fresh construction from the mapping gives
FreshRoles == BuildRoles(roles_definitions, 1, <<>>)

FreshOwner == ScanOwner(DictValues(FreshRoles), 1, None).owner

----------------------------------------------------------------------------
\* C1: a mapping with exactly one is_owner = true entry always constructs, and
\* owner_role is the Role built from that entry (its name is the entry's key,
\* its fields the entry's), wherever the entry sits in the insertion order.
C1_SingleOwnerBuilds ==
    (Cardinality(OwnerEntries) = 1 /\ status # "none") =>
        LET e == roles_definitions[CHOOSE i \in OwnerEntries : TRUE] IN
        /\ status = "built"
        /\ _owner # None
        /\ _owner.name = e.key
        /\ _owner.is_owner
        /\ _owner.can_manage_roles = Field(e.value, "can_manage_roles", <<>>)
        /\ (result.op = "owner_role" => result.val = _owner)

C1_Witness ==
    /\ result.op = "owner_role"
    /\ Len(roles_definitions) >= 2
    /\ OwnerEntries = {2}
    /\ result.val.name = roles_definitions[2].key

\* C2: a mapping whose number of is_owner = true entries is not one (none, the
\* empty mapping, two or more) fails to construct and leaves the caller with no
\* registry; every registry that exists has exactly one owner role.
C2_NotOneOwnerFails ==
    /\ (Cardinality(OwnerEntries) # 1 /\ status # "none") =>
          /\ status = "failed"
          /\ result.op = "__init__"
          /\ result.err = "AssertionError"
          /\ _roles = <<>>
          /\ _owner = None
    /\ (status = "built" => Cardinality(RegistryOwners) = 1)

C2_Witness ==
    /\ status = "failed"
    /\ Cardinality(OwnerEntries) >= 2
    /\ result.msg = "Only one role be defined as owner."

\* C3: manager_roles(n) is the subsequence of the registry's roles, in iteration
\* order, of the roles that list n: none missing, none extra, none twice.
C3_ManagerRolesExact ==
    result.op = "manager_roles" =>
        LET Manages(r) == result.arg \in Listed(r) IN
        /\ result.val = SelectSeq(DictValues(_roles), Manages)
        /\ \A i, j \in DOMAIN result.val :
              result.val[i].name = result.val[j].name => i = j

C3_Witness ==
    /\ result.op = "manager_roles"
    /\ result.arg = "reader"
    /\ Len(result.val) >= 2
    /\ \E i \in DOMAIN result.val :
          result.val[i].can_manage_roles = <<"reader", "reader">>

C5_UnknownNameEmpty ==
    (status = "built" /\ result.op \in {"manager_roles", "can_manage"}
       /\ result.arg \notin RegistryKeys) =>
        /\ result.err = ""
        /\ (result.op = "manager_roles" => result.val = <<>>)
        /\ (result.op = "can_manage" => result.val = FALSE)

\* C5 as amended: for a name n that is no key of the registry, manager_roles(n)
\* and can_manage(n) never raise; manager_roles(n) is empty exactly when no role
\* lists n and r.can_manage(n) is false exactly when r does not list n, so a
\* role whose list names an undefined role n does manage n.
C5_UnknownNameByLists ==
    (status = "built" /\ result.op \in {"manager_roles", "can_manage"}
       /\ result.arg \notin RegistryKeys) =>
        /\ result.err = ""
        /\ (result.op = "manager_roles" =>
              (result.val = <<>> <=>
                 \A i \in DOMAIN _roles : result.arg \notin Listed(_roles[i].value)))
        /\ (result.op = "can_manage" =>
              (result.val = FALSE <=> result.arg \notin Listed(result.self)))

C5_Witness ==
    /\ status = "built"
    /\ result.op = "manager_roles"
    /\ result.arg = "ghost"
    /\ result.arg \notin RegistryKeys
    /\ result.val # <<>>

\* C6: n in R is true exactly when R[n] succeeds; R[n] for an absent n raises
\* KeyError and leaves the registry as built; n in R never raises.
C6_ContainsIffGetItem ==
    /\ (result.op = "__contains__" =>
          /\ result.err = ""
          /\ (result.val <=> result.arg \in RegistryKeys))
    /\ (result.op = "__getitem__" =>
          /\ (result.err = "" <=> result.arg \in RegistryKeys)
          /\ (result.err # "" =>
                /\ result.err = "KeyError"
                /\ _roles = FreshRoles
                /\ _owner = FreshOwner)
          /\ (result.err = "" =>
                \E i \in DOMAIN _roles :
                    _roles[i].key = result.arg /\ _roles[i].value = result.val))

C6_Witness ==
    /\ result.op = "__getitem__"
    /\ result.err = "KeyError"
    /\ Len(_roles) >= 1
    /\ _roles = FreshRoles

\* C7: a registry that exists has exactly one role with is_owner = true;
\* owner_role is that role, never None, and R[owner_role.name] is owner_role.
C7_OwnerIsMember ==
    status = "built" =>
        /\ _owner # None
        /\ Cardinality(RegistryOwners) = 1
        /\ \A i \in RegistryOwners : _roles[i].value = _owner
        /\ GetItemOutcome(_roles, _owner.name).err = ""
        /\ GetItemOutcome(_roles, _owner.name).val = _owner
        /\ (result.op = "owner_role" => result.val # None /\ result.val.is_owner)

C7_Witness ==
    /\ status = "built"
    /\ Len(_roles) >= 2
    /\ result.op = "__getitem__"
    /\ result.arg = _owner.name
    /\ result.val = _owner

\* C8: iterating the registry (roles or __iter__) yields each Role once, in the
\* insertion order of the configuration mapping, every time it is iterated.
C8_IterationInInsertionOrder ==
    result.op \in {"__iter__", "roles"} =>
        /\ Len(result.val) = Len(roles_definitions)
        /\ \A i \in DOMAIN result.val :
              result.val[i].name = roles_definitions[i].key

C8_Witness ==
    /\ result.op = "__iter__"
    /\ Len(result.val) >= 2
    /\ result.val[1].name = "reader"
    /\ result.val[2].name = "owner"

\* C9: every key of the registry is the name of its Role, R[n].name = n, and
\* the registry has one Role per entry of the configuration mapping.
C9_KeyIsName ==
    /\ status = "built" =>
          /\ \A i \in DOMAIN _roles : _roles[i].key = _roles[i].value.name
          /\ RegistryKeys = ConfigKeys
          /\ Len(_roles) = Len(roles_definitions)
    /\ (result.op = "__getitem__" /\ result.err = "") => result.val.name = result.arg

C9_Witness ==
    /\ status = "built"
    /\ Len(_roles) >= 2
    /\ result.op = "__getitem__"
    /\ result.err = ""
    /\ result.val.name = result.arg

\* each query's result is the one the freshly built registry gives
SameAsFresh ==
    /\ result.op = "__contains__" => result = ContainsOutcome(FreshRoles, result.arg)
    /\ result.op = "__getitem__" => result = GetItemOutcome(FreshRoles, result.arg)
    /\ result.op \in {"__iter__", "roles"} => result.val = DictValues(FreshRoles)
    /\ result.op = "owner_role" => result.val = FreshOwner
    /\ result.op = "manager_roles" => result = ManagerRolesOutcome(FreshRoles, result.arg)
    /\ result.op = "can_manage" =>
          /\ \E i \in DOMAIN FreshRoles : FreshRoles[i].value = result.self
          /\ result = CanManageOutcome(result.self, result.arg)

\* C10: once the registry is built no query changes its mapping, its owner or
\* a Role, and every query, in any interleaving, returns what it returns on
\* the freshly built registry.
C10_QueriesReadOnly ==
    /\ [][status = "built" =>
            /\ status' = "built"
            /\ _roles' = _roles
            /\ _owner' = _owner
            /\ roles_definitions' = roles_definitions]_vars
    /\ [](status = "built" => SameAsFresh)

C10_Witness ==
    /\ status = "built"
    /\ result.op = "manager_roles"
    /\ result.val # <<>>
    /\ _roles = FreshRoles
    /\ _owner = FreshOwner

====
